---------------------------- MODULE Spec2Model ----------------------------
(***************************************************************************)
(* Model of twipper/premium.py: the two premium search entry points        *)
(* search_tweets and wrapper_premium_user_search.  One call is modelled    *)
(* from its arguments to its return value or raised exception; the remote  *)
(* search API and the available_languages collaborator are the             *)
(* environment and answer nondeterministically.                            *)
(*                                                                         *)
(* Python values are records [t, n, s]: t is the type name, n the numeric  *)
(* value of an int/bool, s the text of a str as a sequence of chunks       *)
(* (date strings are written one character per chunk).                     *)
(***************************************************************************)
EXTENDS Integers, Sequences, FiniteSets, TLC

\* ------------------------------------------------------------------ bounds
MaxPages == 3
MaxItems == 2

\* ----------------------------------------------------------- Python values
None == [t |-> "NoneType", n |-> 0, s |-> <<>>]
PyInt(k) == [t |-> "int", n |-> k, s |-> <<>>]
PyBool(b) == [t |-> "bool", n |-> IF b THEN 1 ELSE 0, s |-> <<>>]
PyStr(x) == [t |-> "str", n |-> 0, s |-> x]
Client == [t |-> "Client", n |-> 0, s |-> <<>>]

\* bool(v): None, 0, False and '' are falsy
Truthy(v) ==
    CASE v.t = "NoneType" -> FALSE
      [] v.t \in {"int", "bool"} -> v.n # 0
      [] v.t = "str" -> Len(v.s) > 0
      [] OTHER -> TRUE

\* isinstance(v, cls): bool is a subclass of int
IsInstance(v, cls) ==
    IF cls = "int" THEN v.t \in {"int", "bool"} ELSE v.t = cls

\* the guard `not x or not isinstance(x, cls)` of the argument checks
Rejected(v, cls) == ~Truthy(v) \/ ~IsInstance(v, cls)

\* ---------------------------------------------------------------- strptime
Digits == {"0", "1", "2", "3", "4", "5", "6", "7", "8", "9"}

DigitVal(c) ==
    CASE c = "0" -> 0 [] c = "1" -> 1 [] c = "2" -> 2 [] c = "3" -> 3
      [] c = "4" -> 4 [] c = "5" -> 5 [] c = "6" -> 6 [] c = "7" -> 7
      [] c = "8" -> 8 [] c = "9" -> 9 [] OTHER -> 0

\* value of the field of length l (1 or 2) that starts at position p;
\* a leading blank (the ' [1-9]' form of %d) counts as 0
FieldVal(s, p, l) ==
    IF l = 1 THEN DigitVal(s[p]) ELSE 10 * DigitVal(s[p]) + DigitVal(s[p + 1])

InStr(s, p, l) == p >= 1 /\ p + l - 1 <= Len(s)

AllDigits(s, p, l) == \A j \in p..(p + l - 1) : s[j] \in Digits

\* %Y : \d\d\d\d
MatchY(s) == InStr(s, 1, 4) /\ AllDigits(s, 1, 4)

\* %m : 1[0-2]|0[1-9]|[1-9]
MatchMonth(s, p, l) ==
    /\ InStr(s, p, l)
    /\ AllDigits(s, p, l)
    /\ IF l = 2 THEN FieldVal(s, p, 2) \in 1..12
                ELSE FieldVal(s, p, 1) \in 1..9

\* %d : 3[0-1]|[1-2]\d|0[1-9]|[1-9]| [1-9]
MatchDay(s, p, l) ==
    /\ InStr(s, p, l)
    /\ IF l = 2
         THEN \/ AllDigits(s, p, 2) /\ FieldVal(s, p, 2) \in 1..31
              \/ s[p] = " " /\ s[p + 1] \in Digits \ {"0"}
         ELSE s[p] \in Digits \ {"0"}

\* %H : 2[0-3]|[0-1]\d|\d
MatchHour(s, p, l) ==
    /\ InStr(s, p, l)
    /\ AllDigits(s, p, l)
    /\ (l = 2 => FieldVal(s, p, 2) \in 0..23)

\* %M : [0-5]\d|\d
MatchMinute(s, p, l) ==
    /\ InStr(s, p, l)
    /\ AllDigits(s, p, l)
    /\ (l = 2 => FieldVal(s, p, 2) \in 0..59)

\* the widths the four variable-width fields can take
Widths == {w \in [1..4 -> {1, 2}] : TRUE}

\* the regular expression tries the two-character alternatives of a field
\* before the one-character one, earlier fields outermost
Rank(w) == (2 - w[1]) * 8 + (2 - w[2]) * 4 + (2 - w[3]) * 2 + (2 - w[4])

Matches(s, w) ==
    /\ MatchY(s)
    /\ MatchMonth(s, 5, w[1])
    /\ MatchDay(s, 5 + w[1], w[2])
    /\ MatchHour(s, 5 + w[1] + w[2], w[3])
    /\ MatchMinute(s, 5 + w[1] + w[2] + w[3], w[4])

IsLeap(y) == (y % 4 = 0) /\ ((y % 100 # 0) \/ (y % 400 = 0))

DaysInMonth(y, m) ==
    IF m = 2 THEN (IF IsLeap(y) THEN 29 ELSE 28)
    ELSE IF m \in {4, 6, 9, 11} THEN 30 ELSE 31

NoDate == [ok |-> FALSE, dt |-> <<0, 0, 0, 0, 0>>]

\* datetime.datetime.strptime(s, '%Y%m%d%H%M'): ok = FALSE stands for the
\* ValueError it raises (no match, unconverted data, year or day out of range)
Strptime(s) ==
    LET found == {w \in Widths : Matches(s, w)}
    IN  IF found = {} THEN NoDate
        ELSE LET w == CHOOSE x \in found : \A z \in found : Rank(x) <= Rank(z)
                 end == 4 + w[1] + w[2] + w[3] + w[4]
                 y == 1000 * DigitVal(s[1]) + 100 * DigitVal(s[2])
                        + 10 * DigitVal(s[3]) + DigitVal(s[4])
                 m == FieldVal(s, 5, w[1])
                 d == FieldVal(s, 5 + w[1], w[2])
                 h == FieldVal(s, 5 + w[1] + w[2], w[3])
                 mi == FieldVal(s, 5 + w[1] + w[2] + w[3], w[4])
             IN  IF end # Len(s) THEN NoDate
                 ELSE IF y < 1 \/ d > DaysInMonth(y, m) THEN NoDate
                 ELSE [ok |-> TRUE, dt |-> <<y, m, d, h, mi>>]

\* datetime comparison a >= b, field by field
RECURSIVE GeqFrom(_, _, _)
GeqFrom(a, b, k) ==
    IF k > 5 THEN TRUE
    ELSE IF a[k] # b[k] THEN a[k] > b[k]
    ELSE GeqFrom(a, b, k + 1)

DateGeq(a, b) == GeqFrom(a, b, 1)

\* ------------------------------------------------------------- environment
\* texts used as arguments
d201901010000 == <<"2", "0", "1", "9", "0", "1", "0", "1", "0", "0", "0", "0">>
d201901020000 == <<"2", "0", "1", "9", "0", "1", "0", "2", "0", "0", "0", "0">>
d2019010212 == <<"2", "0", "1", "9", "0", "1", "0", "2", "1", "2">>
d201902300000 == <<"2", "0", "1", "9", "0", "2", "3", "0", "0", "0", "0", "0">>
dDashed == <<"2", "0", "1", "9", "-", "0", "1", "-", "0", "1">>

ApiArgs == {None, Client}
TokenArgs == {PyStr(<<>>), PyStr(<<"tok">>)}
PlanArgs == {PyInt(30), PyStr(<<"30day">>)}
LabelArgs == {None, PyStr(<<"dev">>)}
QueryArgs == {PyStr(<<>>), PyStr(<<"cat">>)}
PageCountArgs ==
    {None, PyStr(<<"3">>), PyBool(TRUE)} \cup {PyInt(k) : k \in (-1)..MaxPages}
DateArgs ==
    {None, PyInt(2019), PyStr(d201901010000), PyStr(d201901020000),
     PyStr(d2019010212), PyStr(d201902300000), PyStr(dDashed)}
LanguageArgs ==
    {None, PyStr(<<>>), PyInt(0), PyInt(5), PyStr(<<"es">>), PyStr(<<"xx">>)}

\* what available_languages may return
LanguageLists == {{<<"en">>}, {<<"en">>, <<"es">>}}

\* continuation tokens the server may hand out
Tokens == {"tokA", "tokB"}

\* the tweets of page k: opaque records, identified by page and position
PageItems(k, len) == [j \in 1..len |-> <<k, j>>]

\* JSON bodies the server may answer request number k with
Bodies(k) ==
    LET base == [requestParameters |-> "rp"]
        withResults == {("results" :> PageItems(k, len)) @@ base : len \in 0..MaxItems}
        noNext == {base} \cup withResults
    IN  noNext \cup {("next" :> tk) @@ b : tk \in Tokens, b \in noNext}

\* responses to request number k; a non-200 answer carries an error body
Responses(k) ==
    {[status_code |-> 200, json |-> b] : b \in Bodies(k)}
      \cup {[status_code |-> 500, json |-> [error |-> "e"]]}

\* ------------------------------------------------------------------- state
VARIABLES
    entry,          \* which of the two functions was called
    api, oauth_token, plan, label, query, screen_name,
    page_count, from_date, to_date, language,     \* the arguments
    url, languages, tweets, next_page, i,         \* the locals
    pc,             \* position in the function body
    raised,         \* name of the exception raised, "" if none
    returned,       \* the value returned (when pc = "returned")
    posts,          \* the requests.post calls made so far, in order
    responses,      \* the responses received so far, in order
    lookups         \* number of available_languages calls made so far

args == <<entry, api, oauth_token, plan, label, screen_name,
          page_count, from_date, to_date, language>>
vars == <<entry, api, oauth_token, plan, label, query, screen_name,
          page_count, from_date, to_date, language,
          url, languages, tweets, next_page, i,
          pc, raised, returned, posts, responses, lookups>>

Init ==
    /\ entry \in {"search_tweets", "wrapper_premium_user_search"}
    /\ api \in ApiArgs
    /\ oauth_token \in TokenArgs
    /\ plan \in PlanArgs
    /\ label \in LabelArgs
    /\ IF entry = "search_tweets"
         THEN query \in QueryArgs /\ screen_name = None
         ELSE screen_name \in QueryArgs /\ query = None
    /\ page_count \in PageCountArgs
    /\ from_date \in DateArgs
    /\ to_date \in DateArgs
    /\ language \in LanguageArgs
    /\ url = <<>>
    /\ languages = {}
    /\ tweets = <<>>
    /\ next_page = ""
    /\ i = 0
    /\ pc = "validate"
    /\ raised = ""
    /\ returned = <<>>
    /\ posts = <<>>
    /\ responses = <<>>
    /\ lookups = 0

\* raise exc: the call ends, nothing else changes
Raise(exc) == pc' = "raised" /\ raised' = exc

\* ------------------------------------------------------------ the validator
\* the argument checks, in source order; TRUE when one of them raises
ArgsRejected ==
    \/ Rejected(api, "Client")
    \/ Rejected(oauth_token, "str")
    \/ Rejected(plan, "str")
    \/ Rejected(label, "str")
    \/ Rejected(IF entry = "search_tweets" THEN query ELSE screen_name, "str")
    \/ Rejected(page_count, "int")
    \/ Rejected(from_date, "str")
    \/ ~Strptime(from_date.s).ok
    \/ Rejected(to_date, "str")
    \/ ~Strptime(to_date.s).ok
    \/ (Truthy(language) /\ ~IsInstance(language, "str"))
    \/ DateGeq(Strptime(from_date.s).dt, Strptime(to_date.s).dt)

SearchUrl ==
    <<"https://api.twitter.com/1.1/tweets/search/">> \o plan.s \o <<"/">>
        \o label.s \o <<".json">>

\* the argument checks up to the construction of url (and of the query of
\* the author search)
Validate ==
    /\ pc = "validate"
    /\ IF ArgsRejected
         THEN /\ Raise("ValueError")
              /\ UNCHANGED <<url, query>>
         ELSE /\ pc' = "languages"
              /\ url' = SearchUrl
              /\ query' = IF entry = "search_tweets" THEN query
                          ELSE PyStr(<<"from:">> \o screen_name.s)
              /\ UNCHANGED raised
    /\ UNCHANGED <<args, languages, tweets, next_page, i,
                   returned, posts, responses, lookups>>

\* --------------------------------------------------------- language filter
\* variant: the check only asks whether any language was fetched
LanguageKnownIfAny(lang, ls) == ls # {}

\* `language in languages`
LanguageKnown(lang, ls) == lang.s \in ls

\* query += ' lang:' + language
WithLanguage(q, lang) == PyStr(q.s \o <<" lang:">> \o lang.s)

\* available_languages(api) raises one of the three caught exceptions
AvailableLanguagesFails ==
    /\ pc = "languages"
    /\ lookups' = lookups + 1
    /\ Raise("RuntimeError")
    /\ UNCHANGED <<args, query, url, languages, tweets, next_page, i,
                   returned, posts, responses>>

\* available_languages(api) returns, then the language check
AvailableLanguagesReturns ==
    /\ pc = "languages"
    /\ \E ls \in LanguageLists :
        /\ lookups' = lookups + 1
        /\ languages' = ls
        /\ IF Truthy(language)
             THEN IF LanguageKnown(language, ls)
                    THEN /\ query' = WithLanguage(query, language)
                         /\ pc' = "first_page"
                         /\ UNCHANGED raised
                    ELSE /\ Raise("ValueError")
                         /\ UNCHANGED query
             ELSE /\ pc' = "first_page"
                  /\ UNCHANGED <<query, raised>>
    /\ UNCHANGED <<args, url, tweets, next_page, i,
                   returned, posts, responses>>

\* --------------------------------------------------------- request builder
Headers ==
    [Authorization |-> <<"Bearer ">> \o oauth_token.s,
     ContentType |-> "application/json"]

\* the body of the first request
FirstData ==
    [query |-> query.s, fromDate |-> from_date.s, toDate |-> to_date.s,
     maxResults |-> 100]

\* the body of a continuation request carrying token tk
NextData(tk) ==
    [query |-> query.s, fromDate |-> from_date.s, toDate |-> to_date.s,
     maxResults |-> 100, next |-> tk]

\* requests.post(url, headers=headers, data=data)
Post(data) == [url |-> url, headers |-> Headers, data |-> data]

\* ---------------------------------------------------- pagination aggregator
\* variant: only a 404 counts as a failed request
FailedOnlyOn404(response) == response.status_code = 404

\* `response.status_code != 200`
Failed(response) == response.status_code # 200

\* `'results' in result` and `'next' in result`
HasResults(result) == "results" \in DOMAIN result
HasNext(result) == "next" \in DOMAIN result

\* variant: the page is put in front of the tweets collected so far
CollectPrepended(tw, result) == result.results \o tw

\* variant: the page replaces the tweets collected so far
CollectOverwriting(tw, result) == result.results

\* tweets += result['results']
Collect(tw, result) == tw \o result.results

\* next_page = result['next']
NextPage(result) == result.next

\* variant: the loop never updates next_page
LoopNextPageStale(old, result) == old

\* the loop's `if 'next' in result: next_page = result['next']`
LoopNextPage(old, result) == IF HasNext(result) THEN result.next ELSE old

\* number of iterations of `for _ in range(n)`
RangeLen(n) == IF n > 0 THEN n ELSE 0

\* variant: tweets is returned without the emptiness check
FinishAlwaysReturns(tw) ==
    /\ pc' = "returned"
    /\ returned' = tw
    /\ UNCHANGED raised

\* `if len(tweets) > 0: return tweets / else: raise IndexError`
Finish(tw) ==
    IF Len(tw) > 0
      THEN /\ pc' = "returned"
           /\ returned' = tw
           /\ UNCHANGED raised
      ELSE /\ Raise("IndexError")
           /\ UNCHANGED returned

\* the first request and the handling of its response; when the page budget
\* leaves no continuation request the call finishes here
FirstRequest ==
    /\ pc = "first_page"
    /\ \E response \in Responses(1) :
        LET result == response.json
        IN  /\ posts' = Append(posts, Post(FirstData))
            /\ responses' = Append(responses, response)
            /\ IF Failed(response)
                 THEN /\ Raise("ConnectionError")
                      /\ UNCHANGED <<tweets, next_page, returned>>
               ELSE IF ~HasResults(result)
                 THEN /\ Raise("IndexError")
                      /\ UNCHANGED <<tweets, next_page, returned>>
               ELSE LET tw == Collect(tweets, result)
                    IN  /\ tweets' = tw
                        /\ IF ~HasNext(result)
                             THEN /\ Finish(tw)
                                  /\ UNCHANGED next_page
                             ELSE /\ next_page' = NextPage(result)
                                  /\ IF RangeLen(page_count.n - 1) = 0
                                       THEN Finish(tw)
                                       ELSE /\ pc' = "following"
                                            /\ UNCHANGED <<raised, returned>>
    /\ UNCHANGED <<args, query, url, languages, i, lookups>>

\* one iteration of the continuation loop; the iteration that breaks or
\* exhausts the range also runs the final check on tweets
FollowingRequest ==
    /\ pc = "following"
    /\ \E response \in Responses(Len(posts) + 1) :
        LET result == response.json
            merged == ~Failed(response) /\ HasResults(result)
            tw == IF merged THEN Collect(tweets, result) ELSE tweets
            continue == merged /\ HasNext(result)
        IN  /\ posts' = Append(posts, Post(NextData(next_page)))
            /\ responses' = Append(responses, response)
            /\ tweets' = tw
            /\ next_page' = IF merged THEN LoopNextPage(next_page, result)
                                    ELSE next_page
            /\ i' = i + 1
            /\ IF continue /\ i + 1 < RangeLen(page_count.n - 1)
                 THEN /\ pc' = "following"
                      /\ UNCHANGED <<raised, returned>>
                 ELSE Finish(tw)
    /\ UNCHANGED <<args, query, url, languages, lookups>>

Next ==
    \/ Validate
    \/ AvailableLanguagesFails
    \/ AvailableLanguagesReturns
    \/ FirstRequest
    \/ FollowingRequest

Spec == Init /\ [][Next]_vars

\* ------------------------------------------------------------- properties
Done == pc \in {"returned", "raised"}

\* a page that answers 200 with a results array
GoodPage(r) == ~Failed(r) /\ HasResults(r.json)

\* the results of the first n responses, concatenated in fetch order
RECURSIVE ConcatResults(_)
ConcatResults(n) ==
    IF n = 0 THEN <<>> ELSE ConcatResults(n - 1) \o responses[n].json.results

\* the server has exactly n pages: pages 1..n-1 carry a token, page n none
ServerHasPages(n) ==
    /\ n <= Len(responses)
    /\ \A j \in 1..n : GoodPage(responses[j])
    /\ \A j \in 1..(n - 1) : HasNext(responses[j].json)
    /\ ~HasNext(responses[n].json)

\* every page received so far was good and announced a further page
AllPagesContinue ==
    \A j \in 1..Len(responses) :
        GoodPage(responses[j]) /\ HasNext(responses[j].json)

\* C1: the number of search requests of a call never exceeds its page_count
C1_RequestsWithinBudget ==
    Len(posts) > 0 => Len(posts) <= page_count.n

\* C2 as stated: when the server has n pages, 1 <= n <= page_count, the call
\* makes exactly n requests and returns the concatenation of their results
C2_AllPagesReturned ==
    Done =>
      \A n \in 1..MaxPages :
        (n <= page_count.n /\ ServerHasPages(n)) =>
            /\ Len(posts) = n
            /\ pc = "returned"
            /\ returned = ConcatResults(n)

\* C2 amended: when the server has n pages, 1 <= n <= page_count, the call
\* makes exactly n requests; it returns the concatenation of their results, in
\* fetch order, when that is non-empty and raises IndexError when every page
\* was empty; and while every page announces a further one the call does not
\* stop before page_count requests
C2_AllPagesReturnedUnlessEmpty ==
    Done =>
      /\ \A n \in 1..MaxPages :
           (n <= page_count.n /\ ServerHasPages(n)) =>
               /\ Len(posts) = n
               /\ IF ConcatResults(n) # <<>>
                    THEN pc = "returned" /\ returned = ConcatResults(n)
                    ELSE pc = "raised" /\ raised = "IndexError"
      /\ (Len(posts) > 0 /\ AllPagesContinue) => Len(posts) >= page_count.n

C2_Witness ==
    /\ pc = "returned"
    /\ page_count.n = 3
    /\ ServerHasPages(3)
    /\ Len(posts) = 3
    /\ returned = <<<<1, 1>>, <<1, 2>>, <<2, 1>>, <<2, 2>>, <<3, 1>>, <<3, 2>>>>

\* C3: a first response with a non-200 status raises ConnectionError after
\* exactly one request, and nothing is returned
C3_FirstPageFailureIsFatal ==
    (Len(responses) >= 1 /\ responses[1].status_code # 200) =>
        /\ pc = "raised"
        /\ raised = "ConnectionError"
        /\ Len(posts) = 1
        /\ returned = <<>>

C3_Witness ==
    /\ Len(posts) = 1
    /\ responses[1].status_code = 500
    /\ raised = "ConnectionError"

\* request k is the first one to fail, after a non-empty first page and k-2
\* further good pages that all carried a token
ContinuationFails(k) ==
    /\ k <= Len(responses)
    /\ \A j \in 1..(k - 1) : GoodPage(responses[j]) /\ HasNext(responses[j].json)
    /\ responses[1].json.results # <<>>
    /\ ~GoodPage(responses[k])

\* C4: when continuation request k (2 <= k <= page_count) answers non-200 or
\* without results, the call returns exactly the items of pages 1..k-1 and
\* requests nothing more
C4_ContinuationFailureKeepsPartial ==
    \A k \in 2..MaxPages :
        (k <= page_count.n /\ ContinuationFails(k)) =>
            /\ pc = "returned"
            /\ raised = ""
            /\ Len(posts) = k
            /\ returned = ConcatResults(k - 1)

C4_Witness ==
    /\ page_count.n = 3
    /\ ContinuationFails(3)
    /\ responses[3].status_code = 500
    /\ responses[2].json.results # <<>>
    /\ pc = "returned"
    /\ Len(returned) = Len(responses[1].json.results) + Len(responses[2].json.results)

\* the items of every good page received, in fetch order
RECURSIVE Aggregate(_)
Aggregate(n) ==
    IF n = 0 THEN <<>>
    ELSE Aggregate(n - 1) \o (IF GoodPage(responses[n])
                                THEN responses[n].json.results ELSE <<>>)

\* C5: once the first page is received with status 200 and results, the call
\* returns the aggregate if it is non-empty and raises IndexError otherwise;
\* it never returns an empty list, and a non-empty first page always returns
C5_SucceedsIffNonEmpty ==
    /\ pc = "returned" => returned # <<>>
    /\ (Done /\ Len(responses) >= 1 /\ GoodPage(responses[1])) =>
          /\ (pc = "returned") <=> (Aggregate(Len(responses)) # <<>>)
          /\ pc = "returned" => returned = Aggregate(Len(responses))
          /\ pc = "raised" => raised = "IndexError"
          /\ responses[1].json.results # <<>> => pc = "returned"

C5_Witness ==
    /\ pc = "raised"
    /\ raised = "IndexError"
    /\ Len(responses) = 2
    /\ GoodPage(responses[1])
    /\ GoodPage(responses[2])
    /\ Aggregate(2) = <<>>

\* the format of section 4.1: twelve digits
TwelveDigits(s) == Len(s) = 12 /\ \A j \in 1..12 : s[j] \in Digits

\* an argument is missing or mistyped, a date is not YYYYMMDDhhmm, or the
\* parsed start is not before the parsed end
ValidationViolation ==
    \/ Rejected(api, "Client")
    \/ Rejected(oauth_token, "str")
    \/ Rejected(plan, "str")
    \/ Rejected(label, "str")
    \/ Rejected(IF entry = "search_tweets" THEN query ELSE screen_name, "str")
    \/ Rejected(page_count, "int")
    \/ Rejected(from_date, "str")
    \/ Rejected(to_date, "str")
    \/ ~TwelveDigits(from_date.s)
    \/ ~TwelveDigits(to_date.s)
    \/ (Truthy(language) /\ ~IsInstance(language, "str"))
    \/ ~Strptime(from_date.s).ok
    \/ ~Strptime(to_date.s).ok
    \/ DateGeq(Strptime(from_date.s).dt, Strptime(to_date.s).dt)

C7_NoLookupWithoutLanguage ==
    language \in {None, PyStr(<<>>)} => (lookups = 0 /\ raised # "RuntimeError")

\* C8: a supplied language code that is not in the fetched list raises
\* ValueError and no search request is made
C8_UnknownLanguageRejected ==
    (lookups > 0 /\ raised # "RuntimeError"
        /\ Truthy(language) /\ language.s \notin languages) =>
            /\ pc = "raised"
            /\ raised = "ValueError"
            /\ posts = <<>>

C8_Witness ==
    /\ lookups = 1
    /\ language = PyStr(<<"es">>)
    /\ languages = {<<"en">>}
    /\ raised = "ValueError"

\* C9: an integer page_count <= 0 is rejected with ValueError before any
\* network call, so every call that issues a request has page_count >= 1
C9_PageBudgetPositive ==
    /\ (pc # "validate" /\ IsInstance(page_count, "int") /\ page_count.n <= 0) =>
          (raised = "ValueError" /\ posts = <<>> /\ lookups = 0)
    /\ Len(posts) > 0 => page_count.n >= 1

\* C10: every continuation request carries the token of the response just
\* before it, which was a good page with a token, and repeats the query, the
\* dates and maxResults = 100 of the first request, which carries no token
C10_LatestTokenFollowed ==
    /\ Len(responses) = Len(posts)
    /\ Len(posts) >= 1 =>
          /\ "next" \notin DOMAIN posts[1].data
          /\ posts[1].data = [query |-> query.s, fromDate |-> from_date.s,
                              toDate |-> to_date.s, maxResults |-> 100]
    /\ \A k \in 2..Len(posts) :
          /\ GoodPage(responses[k - 1])
          /\ HasNext(responses[k - 1].json)
          /\ "next" \in DOMAIN posts[k].data
          /\ posts[k].data.next = responses[k - 1].json.next
          /\ posts[k].url = posts[1].url
          /\ posts[k].data.query = posts[1].data.query
          /\ posts[k].data.fromDate = posts[1].data.fromDate
          /\ posts[k].data.toDate = posts[1].data.toDate
          /\ posts[k].data.maxResults = 100

C10_Witness ==
    /\ Len(posts) = 3
    /\ responses[1].json.next = "tokA"
    /\ responses[2].json.next = "tokB"
    /\ posts[2].data.next = "tokA"
    /\ posts[3].data.next = "tokB"

=============================================================================
